---- MODULE Spec2Model ----
(***************************************************************************)
(* Model of search_mcp/perplexity_adapter.py: the validated, deadline-     *)
(* bounded, retried provider call of search_perplexity.                    *)
(*                                                                         *)
(* Strings are run-length encoded: a string is a sequence of runs          *)
(* [ch |-> c, n |-> k] (k copies of character c), so that the length       *)
(* limits of the code (4096, 253) are reached with short sequences.        *)
(* Exception texts (class names, messages) are sequences of word tokens;   *)
(* substring search for a keyword is a table lookup per token.             *)
(***************************************************************************)
EXTENDS Integers, Sequences, FiniteSets, TLC

\* ------------------------------------------------------------------ bounds
MaxQueryRuns == 3
MaxHostRuns == 2
MaxFilterLen == 2
MaxNum == 32
MaxItems == 2
TimeoutTicks == 2

\* provider calls take 1..MaxDur ticks: some end after the deadline
MaxDur == TimeoutTicks + 1

\* ------------------------------------------------------- program constants
_MIN_RESULTS == 1
_MAX_RESULTS == 30
_DEFAULT_RESULTS == 10
MaxQueryLen == 4096
MaxHostLen == 253

\* optional values: None is the empty tuple, a present value x is <<x>>
None == <<>>
Some(x) == <<x>>
Get(o) == o[1]

\* ------------------------------------------------------------ RLE strings
Run(c, k) == [ch |-> c, n |-> k]

RECURSIVE StrLen(_)
StrLen(s) == IF s = <<>> THEN 0 ELSE Head(s).n + StrLen(Tail(s))

\* canonical form: adjacent runs of the same character are merged
RECURSIVE Canon(_)
Canon(s) ==
    IF Len(s) <= 1 THEN s
    ELSE LET r == Canon(Tail(s)) IN
         IF Head(s).ch = Head(r).ch
         THEN <<Run(Head(s).ch, Head(s).n + Head(r).n)>> \o Tail(r)
         ELSE <<Head(s)>> \o r

IsSpace(c) == c = " "

RECURSIVE LStrip(_)
LStrip(s) == IF s # <<>> /\ IsSpace(Head(s).ch) THEN LStrip(Tail(s)) ELSE s

RECURSIVE RStrip(_)
RStrip(s) ==
    IF s # <<>> /\ IsSpace(s[Len(s)].ch) THEN RStrip(SubSeq(s, 1, Len(s) - 1)) ELSE s

\* str.strip()
Strip(s) == Canon(RStrip(LStrip(s)))

LowerCh(c) == IF c = "A" THEN "a" ELSE c

\* str.lower()
Lower(s) == Canon([i \in 1..Len(s) |-> Run(LowerCh(s[i].ch), s[i].n)])

\* x in s, for a one-character x
HasChar(s, c) == \E i \in 1..Len(s) : s[i].ch = c

\* _HOSTNAME_REGEX = ^[a-z0-9.-]+$
HostnameChars == {"a", "b", "0", ".", "-"}
_HOSTNAME_REGEX(s) == s # <<>> /\ \A i \in 1..Len(s) : s[i].ch \in HostnameChars

\* ---------------------------------------------------------------- errors
Exc(c, m) == [cls |-> c, msg |-> m]
ValueError(m) == Exc("ValueError", <<m>>)

Ok(v) == [ok |-> TRUE, val |-> v]
Raise(e) == [ok |-> FALSE, exc |-> e]

\* ------------------------------------------------------------- validation
\* the emptiness test applied to the untrimmed query
_validate_query_untrimmed_test(query) ==
    LET q == Strip(query) IN
    IF query = <<>> THEN Raise(ValueError("query must be a non-empty string after trimming whitespace"))
    ELSE IF StrLen(q) > MaxQueryLen
         THEN Raise(ValueError("query exceeds maximum length of 4096 characters"))
         ELSE Ok(q)

_validate_query(query) ==
    LET q == Strip(query) IN
    IF q = <<>> THEN Raise(ValueError("query must be a non-empty string after trimming whitespace"))
    ELSE IF StrLen(q) > MaxQueryLen
         THEN Raise(ValueError("query exceeds maximum length of 4096 characters"))
         ELSE Ok(q)

\* the clamp without its upper bound
_clamp_num_results_no_upper(n) ==
    IF n = None THEN _DEFAULT_RESULTS
    ELSE LET v == Get(n) IN
         IF v < _MIN_RESULTS THEN _MIN_RESULTS ELSE v

_clamp_num_results(n) ==
    IF n = None THEN _DEFAULT_RESULTS
    ELSE LET v == Get(n) IN
         IF v < _MIN_RESULTS THEN _MIN_RESULTS
         ELSE IF v > _MAX_RESULTS THEN _MAX_RESULTS
         ELSE v

\* one iteration of the loop body of _normalize_domains, up to the checks
CheckDomain(raw) ==
    LET d == Lower(Strip(raw)) IN
    IF d = <<>> THEN Raise(ValueError("search_domain_filter contains an empty domain"))
    ELSE IF HasChar(d, "/") \/ HasChar(d, " ")
         THEN Raise(ValueError("invalid domain (must be hostname only)"))
    ELSE IF StrLen(d) > MaxHostLen
         THEN Raise(ValueError("invalid domain (length > 253)"))
    ELSE IF ~_HOSTNAME_REGEX(d)
         THEN Raise(ValueError("invalid domain (allowed: a-z, 0-9, dot, hyphen)"))
    ELSE Ok(d)

InSeq(x, s) == \E i \in 1..Len(s) : s[i] = x

\* the loop without the seen set: every entry is appended
RECURSIVE NormalizeLoop_no_dedup(_, _)
NormalizeLoop_no_dedup(domains, normalized) ==
    IF domains = <<>> THEN Ok(normalized)
    ELSE LET r == CheckDomain(Head(domains)) IN
         IF ~r.ok THEN r
         ELSE NormalizeLoop_no_dedup(Tail(domains), Append(normalized, r.val))

\* the loop skipping an entry that fails a check instead of raising
RECURSIVE NormalizeLoop_skip_invalid(_, _)
NormalizeLoop_skip_invalid(domains, normalized) ==
    IF domains = <<>> THEN Ok(normalized)
    ELSE LET r == CheckDomain(Head(domains)) IN
         IF ~r.ok THEN NormalizeLoop_skip_invalid(Tail(domains), normalized)
         ELSE NormalizeLoop_skip_invalid(Tail(domains),
                            IF InSeq(r.val, normalized) THEN normalized
                            ELSE Append(normalized, r.val))

\* the for loop of _normalize_domains: normalized is the list built so far
RECURSIVE NormalizeLoop(_, _)
NormalizeLoop(domains, normalized) ==
    IF domains = <<>> THEN Ok(normalized)
    ELSE LET r == CheckDomain(Head(domains)) IN
         IF ~r.ok THEN r
         ELSE NormalizeLoop(Tail(domains),
                            IF InSeq(r.val, normalized) THEN normalized
                            ELSE Append(normalized, r.val))

_normalize_domains(domains) ==
    IF domains = None THEN Ok(None)
    ELSE IF Len(Get(domains)) = 0
         THEN Raise(ValueError("search_domain_filter, when provided, must be a non-empty list"))
    ELSE LET r == NormalizeLoop(Get(domains), <<>>) IN
         IF ~r.ok THEN r
         ELSE IF r.val = <<>>
              THEN Raise(ValueError("search_domain_filter normalization resulted in an empty list"))
              ELSE Ok(Some(r.val))

\* ------------------------------------------------------ exception classes
\* the classes a failure is tested against with isinstance
Bases(cls) ==
    CASE cls = "ValueError" -> {"ValueError"}
      [] cls = "OSError" -> {"OSError"}
      [] cls = "RuntimeError" -> {"RuntimeError"}
      [] cls = "TimeoutError" -> {"OSError", "TimeoutError"}
      [] cls = "ConnectionRefusedError" -> {"OSError"}
      [] cls = "httpx.ConnectError" -> {"httpx.ConnectError", "httpx.TransportError"}
      [] cls = "httpx.ConnectTimeout" -> {"httpx.ConnectTimeout", "httpx.TransportError"}
      [] cls = "httpx.ReadTimeout" -> {"httpx.ReadTimeout", "httpx.TransportError"}
      [] cls = "httpx.TransportError" -> {"httpx.TransportError"}
      [] cls = "httpx.ProxyError" -> {"httpx.TransportError"}
      [] OTHER -> {}

IsInstance(exc, classes) == Bases(exc.cls) \cap classes # {}

\* exc.__class__.__name__, split into words
ClassName(cls) ==
    CASE cls = "ValueError" -> <<"Value", "Error">>
      [] cls = "OSError" -> <<"OS", "Error">>
      [] cls = "RuntimeError" -> <<"Runtime", "Error">>
      [] cls = "TimeoutError" -> <<"Timeout", "Error">>
      [] cls = "ConnectionRefusedError" -> <<"Connection", "Refused", "Error">>
      [] cls = "httpx.ConnectError" -> <<"Connect", "Error">>
      [] cls = "httpx.ConnectTimeout" -> <<"Connect", "Timeout">>
      [] cls = "httpx.ReadTimeout" -> <<"Read", "Timeout">>
      [] cls = "httpx.TransportError" -> <<"Transport", "Error">>
      [] cls = "httpx.ProxyError" -> <<"Proxy", "Error">>
      [] cls = "NetworkDown" -> <<"Network", "Down">>
      [] cls = "KeyError" -> <<"Key", "Error">>
      [] OTHER -> <<"Exception">>

\* str.lower() of one word of a text
LowerTok(t) ==
    CASE t = "Connection" -> "connection"
      [] t = "Connect" -> "connect"
      [] t = "Timeout" -> "timeout"
      [] t = "Timed Out" -> "timed out"
      [] t = "Transport" -> "transport"
      [] t = "Network" -> "network"
      [] t = "Try Again" -> "try again"
      [] t = "Temporarily Unavailable" -> "temporarily unavailable"
      [] OTHER -> t

\* the keywords of the classifier that occur as substrings of a lowercase word
KeywordsIn(t) ==
    CASE t = "connection" -> {"connection", "connect"}
      [] t = "connect" -> {"connect"}
      [] t = "timeout" -> {"timeout"}
      [] t = "timed out" -> {"timed out"}
      [] t = "transport" -> {"transport"}
      [] t = "network" -> {"network"}
      [] t = "try again" -> {"try again"}
      [] t = "temporarily unavailable" -> {"temporarily unavailable"}
      [] t = "Perplexity search timed out after Nms" -> {"timed out"}
      [] OTHER -> {}

\* k in text.lower()
Contains(text, k) == \E i \in 1..Len(text) : k \in KeywordsIn(LowerTok(text[i]))

NameKeywords == {"timeout", "connect", "network", "transport"}
MsgKeywords == {"timeout", "timed out", "connection", "transport",
                "temporarily unavailable", "try again"}
HttpxTransient == {"httpx.ConnectError", "httpx.ConnectTimeout",
                   "httpx.ReadTimeout", "httpx.TransportError"}

\* the classifier searching the class name for the keywords of the message
_is_transient_error_one_keyword_list(exc) ==
    IF IsInstance(exc, HttpxTransient) THEN TRUE
    ELSE IF \E k \in MsgKeywords : Contains(ClassName(exc.cls), k) THEN TRUE
    ELSE IF \E k \in MsgKeywords : Contains(exc.msg, k) THEN TRUE
    ELSE FALSE

\* the classifier without the structured check
_is_transient_error_heuristic_only(exc) ==
    IF \E k \in NameKeywords : Contains(ClassName(exc.cls), k) THEN TRUE
    ELSE IF \E k \in MsgKeywords : Contains(exc.msg, k) THEN TRUE
    ELSE FALSE

_is_transient_error(exc) ==
    IF IsInstance(exc, HttpxTransient) THEN TRUE
    ELSE IF \E k \in NameKeywords : Contains(ClassName(exc.cls), k) THEN TRUE
    ELSE IF \E k \in MsgKeywords : Contains(exc.msg, k) THEN TRUE
    ELSE FALSE

\* ----------------------------------------------------- result normalizer
\* Python truthiness of an optional string
Truthy(o) == o # None /\ Get(o) # ""

OrEmpty(o) == IF Truthy(o) THEN Get(o) ELSE ""

\* the loop body setting the date key unconditionally
NormalizeItem_always_date(item) ==
    [title |-> OrEmpty(item.title), url |-> OrEmpty(item.url),
     last_update |-> OrEmpty(item.date), snippet |-> OrEmpty(item.snippet),
     date |-> OrEmpty(item.date)]

\* the loop body of _normalize_results
NormalizeItem(item) ==
    LET title == OrEmpty(item.title)
        url == OrEmpty(item.url)
        date == item.date
        snippet == item.snippet
        last_update == IF Truthy(date) THEN Get(date) ELSE ""
        entry == [title |-> title, url |-> url, last_update |-> last_update,
                  snippet |-> IF Truthy(snippet) THEN Get(snippet) ELSE ""]
    IN IF Truthy(date) THEN entry @@ [date |-> Get(date)] ELSE entry

\* search_response.results is None when the attribute is missing or None
_normalize_results(search_response) ==
    LET results == search_response.results IN
    IF results = None \/ Get(results) = <<>> THEN <<>>
    ELSE [i \in 1..Len(Get(results)) |-> NormalizeItem(Get(results)[i])]

\* os.getenv("PERPLEXITY_API_KEY", "").strip() and the check of _create_client
_create_client(apiKeyEnv, theClient) ==
    IF Strip(apiKeyEnv) = <<>>
    THEN Raise(Exc("OSError", <<"PERPLEXITY_API_KEY is required but missing or empty">>))
    ELSE Ok(theClient)

\* the keyword arguments client.search.create receives
_call_search(q, max_results, domain_filter) ==
    IF domain_filter # None /\ Get(domain_filter) # <<>>
    THEN [query |-> q, max_results |-> max_results, search_domain_filter |-> domain_filter]
    ELSE [query |-> q, max_results |-> max_results, search_domain_filter |-> None]

TimeoutMsg == <<"Perplexity search timed out after Nms">>

\* ------------------------------------------------------------ input sets
SeqsUpTo(S, n) == UNION {[1..k -> S] : k \in 0..n}

Str(c) == <<Run(c, 1)>>

QueryRuns == {Run(" ", 1), Run("a", 1), Run("a", MaxQueryLen)}
Queries == SeqsUpTo(QueryRuns, MaxQueryRuns)

HostRuns == {Run("A", 1), Run("a", 1), Run(" ", 1), Run("/", 1), Run("_", 1),
             Run("a", MaxHostLen)}
\* a hostname with a space inside, which trimming does not remove
InnerSpaceHosts == {<<Run("a", 1), Run(" ", 1), Run("a", 1)>>}
Hosts == SeqsUpTo(HostRuns, MaxHostRuns) \cup InnerSpaceHosts
Filters == {None} \cup {Some(f) : f \in SeqsUpTo(Hosts, MaxFilterLen)}

Nums == {None} \cup {Some(n) : n \in -1..MaxNum}

ApiKeys == {<<>>, Str(" "), Str("k")}

FieldVals == {None, Some("x")}
DateVals == {None, Some(""), Some("2024-01-01")}
Items == [title : FieldVals, url : FieldVals, date : DateVals, snippet : FieldVals]
Responses == {[results |-> None]} \cup
             {[results |-> Some(r)] : r \in SeqsUpTo(Items, MaxItems)}

ExcClasses == {"ValueError", "OSError", "RuntimeError", "TimeoutError",
               "ConnectionRefusedError", "httpx.ConnectError", "httpx.ConnectTimeout",
               "httpx.ReadTimeout", "httpx.TransportError", "httpx.ProxyError",
               "NetworkDown", "KeyError", "Exception"}
Msgs == {<<"boom">>, <<"Connection", "reset">>, <<"please", "Try Again">>}
Excs == {Exc(c, m) : c \in ExcClasses, m \in Msgs}

\* one provider call of the client: how long it takes, or that it never
\* returns, and what it returns or raises
Behaviour(d, h, o) == [dur |-> d, hangs |-> h, out |-> o]
OneItem == [title |-> Some("x"), url |-> Some("x"), date |-> None, snippet |-> None]
OkFast == Behaviour(1, FALSE, Ok([results |-> Some(<<OneItem>>)]))
FlakyFast == Behaviour(1, FALSE, Raise(Exc("httpx.ConnectError", <<"boom">>)))
Failures == {Behaviour(d, FALSE, Raise(e)) : d \in 1..MaxDur, e \in Excs}
Slow == {Behaviour(d, h, OkFast.out) : d \in 1..MaxDur, h \in BOOLEAN}
Answers == {Behaviour(1, FALSE, Ok(r)) : r \in Responses}

DefaultRequest == [query |-> Str("a"), num_results |-> None, search_domain_filter |-> None]
Request(qs, ns, fs) == [query : qs, num_results : ns, search_domain_filter : fs]
SmallQueries == {Str(" "), Str("a")}
SmallNums == {None, Some(0)}
SmallFilters == {None, Some(<<>>), Some(<<Str("/")>>), Some(<<Str("a")>>)}

\* the requests and the clients of the model: each part of the input is
\* varied over its whole set while the others range over a few values
RequestSlice == Request(Queries, SmallNums, SmallFilters)
                \cup Request(SmallQueries, Nums, SmallFilters)
                \cup Request(SmallQueries, SmallNums, Filters)
SmallRequests == Request(SmallQueries, SmallNums, SmallFilters)
SimpleScripts == {<<OkFast, OkFast>>, <<FlakyFast, OkFast>>}
FailureScripts == [1..2 -> Failures \cup Slow]
AnswerScripts == {<<FlakyFast, a>> : a \in Answers} \cup {<<a, OkFast>> : a \in Answers}

\* calls of the tool: the filter keyword is given or not
ToolCalls == Request(SmallQueries, {None, Some(0), Some(7)}, {None, Some(<<Str("a")>>)})
NoToolCall == [query |-> <<>>, num_results |-> None, search_domain_filter |-> None]
ToolBehaviours == {FlakyFast, Behaviour(MaxDur, FALSE, OkFast.out),
                   Behaviour(1, FALSE, Raise(Exc("Exception", <<"boom">>)))}
ToolScripts == SimpleScripts \cup [1..2 -> ToolBehaviours]

\* ------------------------------------------------------------------ state
VARIABLES
    query, num_results, search_domain_filter,   \* arguments of search_perplexity
    apiKey,          \* PERPLEXITY_API_KEY in the environment
    script,          \* script[i]: what the client does on its i-th search.create
    pc,              \* position of the caller in search_perplexity
    q, max_results, domains,   \* locals of search_perplexity
    client,          \* the handle _client_factory returned: the number of the
                     \* factory call that made it
    factoryCalls,    \* number of calls of _client_factory
    calls,           \* arguments and start time of every client.search.create
    threads,         \* worker threads of the executors, one per controller.run
    runs,            \* finished controller.run calls: start, exit time, outcome
    pending,         \* the exception or value controller.run is leaving with
    now,             \* wall clock
    ret,             \* what search_perplexity returned or raised
    entry,           \* "adapter": search_perplexity is called directly,
                     \* "tool": through the tool perplexity_search of server.py
    toolArgs,        \* keyword arguments of the call of perplexity_search
    toolRet          \* what perplexity_search returned or raised

vars == <<query, num_results, search_domain_filter, apiKey, script, pc, q,
          max_results, domains, client, factoryCalls, calls, threads, runs, pending, now, ret,
          entry, toolArgs, toolRet>>

tool == <<entry, toolArgs, toolRet>>

inputs == <<query, num_results, search_domain_filter, apiKey, script>>
locals == <<q, max_results, domains, client>>

InitAdapter ==
    /\ entry = "adapter" /\ toolArgs = NoToolCall
    /\ pc = "start"
    /\ \E r \in RequestSlice \cup {DefaultRequest} :
         /\ query = r.query
         /\ num_results = r.num_results
         /\ search_domain_filter = r.search_domain_filter
         /\ \/ r \in RequestSlice /\ script \in SimpleScripts /\ apiKey = Str("k")
            \/ r \in SmallRequests /\ script \in SimpleScripts /\ apiKey \in ApiKeys
            \/ r = DefaultRequest /\ script \in FailureScripts /\ apiKey = Str("k")
            \/ r = DefaultRequest /\ script \in AnswerScripts /\ apiKey = Str("k")

\* before the tool has called search_perplexity its arguments are unset
InitTool ==
    /\ entry = "tool" /\ toolArgs \in ToolCalls
    /\ pc = "tool"
    /\ query = <<>> /\ num_results = None /\ search_domain_filter = None
    /\ script \in ToolScripts /\ apiKey \in ApiKeys

Init ==
    /\ InitAdapter \/ InitTool
    /\ toolRet = None
    /\ q = None /\ max_results = None /\ domains = None /\ client = None
    /\ factoryCalls = 0
    /\ calls = <<>>
    /\ threads = <<>>
    /\ runs = <<>>
    /\ pending = None
    /\ now = 0
    /\ ret = None

\* ---------------------------------------------------------------- actions
Finish(outcome) == pc' = "done" /\ ret' = Some(outcome)

ToolDefaultResults == 10

\* perplexity_search(query, num_results=10): the call of the tool binds its
\* keyword arguments, then the tool calls search_perplexity (lines 110-113)
ToolCall ==
    /\ pc = "tool"
    /\ IF toolArgs.search_domain_filter # None
       THEN /\ toolRet' = Some(Raise(Exc("TypeError",
                 <<"perplexity_search() got an unexpected keyword argument 'search_domain_filter'">>)))
            /\ pc' = "tooldone"
            /\ UNCHANGED <<query, num_results, search_domain_filter>>
       ELSE /\ query' = toolArgs.query
            /\ num_results' = IF toolArgs.num_results = None THEN Some(ToolDefaultResults)
                                                             ELSE toolArgs.num_results
            /\ search_domain_filter' = None
            /\ pc' = "start"
            /\ toolRet' = toolRet
    /\ UNCHANGED <<apiKey, script, entry, toolArgs, locals, factoryCalls, calls, threads,
                   runs, pending, now, ret>>

\* the tool turning a provider failure into an empty result
ToolOutcome_swallow(r) ==
    IF r.ok THEN Ok([results |-> r.val])
    ELSE IF IsInstance(r.exc, {"ValueError", "OSError", "RuntimeError"}) THEN r
    ELSE Ok([results |-> <<>>])

\* what perplexity_search does with the outcome of search_perplexity: the
\* try statement of lines 109-153
ToolOutcome(r) ==
    IF r.ok THEN Ok([results |-> r.val])
    ELSE IF IsInstance(r.exc, {"ValueError"}) THEN r
    ELSE IF IsInstance(r.exc, {"OSError", "RuntimeError"}) THEN r
    ELSE Raise(Exc("Exception",
                   <<"perplexity_search failed">> \o ClassName(r.exc.cls) \o r.exc.msg))

\* search_perplexity has returned to the tool
ToolReturn ==
    /\ pc = "done"
    /\ entry = "tool"
    /\ toolRet' = Some(ToolOutcome(Get(ret)))
    /\ pc' = "tooldone"
    /\ UNCHANGED <<inputs, entry, toolArgs, locals, factoryCalls, calls, threads,
                   runs, pending, now, ret>>

\* search_perplexity, the three validations before the client is created
Validate ==
    /\ pc = "start"
    /\ LET vq == _validate_query(query)
           vd == _normalize_domains(search_domain_filter)
       IN IF ~vq.ok THEN Finish(vq) /\ UNCHANGED locals
          ELSE IF ~vd.ok THEN Finish(vd) /\ UNCHANGED locals
          ELSE /\ q' = Some(vq.val)
               /\ max_results' = Some(_clamp_num_results(num_results))
               /\ domains' = Some(vd.val)
               /\ client' = client
               /\ pc' = "factory"
               /\ ret' = ret
    /\ UNCHANGED <<inputs, tool, factoryCalls, calls, threads, runs, pending, now>>

\* client = _client_factory()
CreateClient ==
    /\ pc = "factory"
    /\ factoryCalls' = factoryCalls + 1
    /\ LET c == _create_client(apiKey, script) IN
       IF c.ok THEN /\ client' = Some(factoryCalls + 1)
                    /\ pc' = "attempt"
                    /\ ret' = ret
               ELSE Finish(c) /\ client' = client
    /\ UNCHANGED <<inputs, tool, q, max_results, domains, calls, threads, runs, pending, now>>

\* controller.run: executor.submit(invoke); the worker thread starts the
\* provider call
Submit ==
    /\ pc = "attempt"
    /\ calls' = Append(calls, [args |-> _call_search(Get(q), Get(max_results), Get(domains)),
                               client |-> Get(client),
                               at |-> now])
    /\ threads' = Append(threads, [state |-> "running", start |-> now, future |-> None])
    /\ pc' = "wait"
    /\ UNCHANGED <<inputs, tool, locals, factoryCalls, runs, pending, now, ret>>

Cur == Len(threads)
Deadline == threads[Cur].start + TimeoutTicks

\* invoke() iterating over the results without the test for a missing or
\* empty collection
invoke_no_empty_test(o) ==
    IF ~o.ok THEN o
    ELSE IF o.val.results = None
         THEN Raise(Exc("TypeError", <<"'NoneType' object is not iterable">>))
         ELSE Ok(_normalize_results(o.val))

\* invoke(): the provider call's failure, or its response normalized
invoke(o) == IF o.ok THEN Ok(_normalize_results(o.val)) ELSE o

\* the worker thread: invoke() returns or raises and the future is set
TaskFinish ==
    /\ threads # <<>>
    /\ threads[Cur].state = "running"
    /\ ~script[Cur].hangs
    /\ now = threads[Cur].start + script[Cur].dur
    /\ LET res == invoke(script[Cur].out)
       IN threads' = [threads EXCEPT ![Cur] = [@ EXCEPT !.state = "finished",
                                                         !.future = Some(res)]]
    /\ UNCHANGED <<inputs, tool, locals, pc, factoryCalls, calls, runs, pending, now, ret>>

\* time passes while the caller is blocked and the worker is running
Tick ==
    /\ pc \in {"wait", "exit"}
    /\ threads[Cur].state = "running"
    /\ pc = "wait" => now < Deadline
    /\ IF script[Cur].hangs THEN pc = "wait"
       ELSE now < threads[Cur].start + script[Cur].dur
    /\ now' = now + 1
    /\ UNCHANGED <<inputs, tool, locals, pc, factoryCalls, calls, threads, runs, pending, ret>>

\* future.result(timeout) returns the value or re-raises the task's failure;
\* where concurrent.futures.TimeoutError is the builtin TimeoutError, a
\* TimeoutError raised by the task is caught by the except clause as well
ResultReturn ==
    /\ pc = "wait"
    /\ threads[Cur].state = "finished"
    /\ LET f == Get(threads[Cur].future) IN
       \E caught \in IF ~f.ok /\ IsInstance(f.exc, {"TimeoutError"}) THEN BOOLEAN ELSE {FALSE} :
          pending' = Some(IF caught THEN Raise(Exc("TimeoutError", TimeoutMsg)) ELSE f)
    /\ pc' = "exit"
    /\ UNCHANGED <<inputs, tool, locals, factoryCalls, calls, threads, runs, now, ret>>

\* the deadline handled by abandoning the worker (shutdown(wait=False)) and
\* re-raising the executor's own timeout error, which is no OSError
DeadlineExpire_abandon_and_reraise ==
    /\ pc = "wait"
    /\ threads[Cur].state = "running"
    /\ now = Deadline
    /\ runs' = Append(runs, [start |-> threads[Cur].start, exit |-> now,
                             out |-> Raise(Exc("concurrent.futures.TimeoutError", TimeoutMsg))])
    /\ pc' = "handle"
    /\ UNCHANGED <<inputs, tool, locals, factoryCalls, calls, threads, pending, now, ret>>

\* future.result(timeout) raises FuturesTimeout: future.cancel() has no effect
\* on a running task, TimeoutError is raised inside the with block
DeadlineExpire ==
    /\ pc = "wait"
    /\ threads[Cur].state = "running"
    /\ now = Deadline
    /\ pending' = Some(Raise(Exc("TimeoutError", TimeoutMsg)))
    /\ pc' = "exit"
    /\ UNCHANGED <<inputs, tool, locals, factoryCalls, calls, threads, runs, now, ret>>

\* ThreadPoolExecutor.__exit__ is shutdown(wait=True): the with block is left
\* only once the worker thread has finished
\* the with block left without waiting for the worker: shutdown(wait=False)
ExitGuard_no_wait == TRUE

ExitGuard == threads[Cur].state = "finished"

ExecutorExit ==
    /\ pc = "exit"
    /\ ExitGuard
    /\ runs' = Append(runs, [start |-> threads[Cur].start, exit |-> now, out |-> Get(pending)])
    /\ pending' = None
    /\ pc' = "handle"
    /\ UNCHANGED <<inputs, tool, locals, factoryCalls, calls, threads, now, ret>>

Last == runs[Len(runs)].out

\* the isinstance test without EnvironmentError
NoRetryClasses_no_oserror == {"ValueError", "RuntimeError"}

NoRetryClasses == {"ValueError", "OSError", "RuntimeError"}

\* the retry decision without the classifier: every other failure is retried
ShouldRetry_any_failure(exc) == ~IsInstance(exc, NoRetryClasses)

\* the retry decision without the isinstance test
ShouldRetry_classifier_only(exc) == _is_transient_error(exc)

\* the conditions under which the first except clause goes on to the retry
ShouldRetry(exc) == ~IsInstance(exc, NoRetryClasses) /\ _is_transient_error(exc)

\* return controller.run(invoke), first attempt or retry
ReturnResult ==
    /\ pc = "handle"
    /\ Last.ok
    /\ Finish(Last)
    /\ UNCHANGED <<inputs, tool, locals, factoryCalls, calls, threads, runs, pending, now>>

\* the bare raise statements of the first except clause
RaiseFirst ==
    /\ pc = "handle"
    /\ Len(runs) = 1
    /\ ~Last.ok
    /\ ~ShouldRetry(Last.exc)
    /\ Finish(Last)
    /\ UNCHANGED <<inputs, tool, locals, factoryCalls, calls, threads, runs, pending, now>>

\* a retry after a pause as long as the timeout
RetryDelay_backoff == TimeoutTicks

\* time spent between the first failure and the retry
RetryDelay == 0

\* a retry that asks the factory for a fresh client first
Retry_new_client ==
    /\ pc = "handle"
    /\ Len(runs) = 1
    /\ ~Last.ok
    /\ ShouldRetry(Last.exc)
    /\ factoryCalls' = factoryCalls + 1
    /\ client' = Some(factoryCalls + 1)
    /\ pc' = "attempt"
    /\ now' = now + RetryDelay
    /\ UNCHANGED <<inputs, tool, q, max_results, domains, calls, threads, runs, pending, ret>>

\* the first except clause falls through to the single retry
Retry ==
    /\ pc = "handle"
    /\ Len(runs) = 1
    /\ ~Last.ok
    /\ ShouldRetry(Last.exc)
    /\ pc' = "attempt"
    /\ now' = now + RetryDelay
    /\ UNCHANGED <<inputs, tool, locals, factoryCalls, calls, threads, runs, pending, ret>>

\* the retry's failure re-raised as it is
AfterRetry_unwrapped(exc2) == exc2

\* the wrapping error without the class name of the retry's failure
AfterRetry_no_kind(exc2) ==
    Exc("Exception", <<"perplexity_search failed after retry">> \o exc2.msg)

AfterRetry(exc2) ==
    Exc("Exception", <<"perplexity_search failed after retry">> \o ClassName(exc2.cls) \o exc2.msg)

\* the except clause of the retry
RaiseAfterRetry ==
    /\ pc = "handle"
    /\ Len(runs) = 2
    /\ ~Last.ok
    /\ Finish(Raise(AfterRetry(Last.exc)))
    /\ UNCHANGED <<inputs, tool, locals, factoryCalls, calls, threads, runs, pending, now>>

Next ==
    \/ Validate
    \/ CreateClient
    \/ Submit
    \/ TaskFinish
    \/ Tick
    \/ ResultReturn
    \/ DeadlineExpire
    \/ ExecutorExit
    \/ ReturnResult
    \/ RaiseFirst
    \/ Retry
    \/ RaiseAfterRetry
    \/ ToolCall
    \/ ToolReturn

Spec == Init /\ [][Next]_vars

\* scheduling: the caller and the worker thread keep running, time passes
FairSpec == Spec /\ WF_vars(Next)

\* ================================================================ claims
\* search_perplexity has returned or raised
Done == pc = "done" \/ (pc = "tooldone" /\ ret # None)
Raised(cls) == Done /\ ~Get(ret).ok /\ Get(ret).exc.cls = cls
InTime(b) == ~b.hangs /\ b.dur < TimeoutTicks
Late(b) == b.hangs \/ b.dur > TimeoutTicks
IsDeadlineTimeout(o) == ~o.ok /\ o.exc = Exc("TimeoutError", TimeoutMsg)

\* the first call fails in time with a structured connectivity failure, the
\* second call answers in time
FlakyThenOk ==
    /\ InTime(script[1]) /\ ~script[1].out.ok
    /\ IsInstance(script[1].out.exc, HttpxTransient)
    /\ InTime(script[2]) /\ script[2].out.ok

C2_ReturnsAtDeadline ==
    /\ pc \in {"wait", "exit"} => now <= Deadline
    /\ \A i \in 1..Len(runs) : runs[i].exit <= runs[i].start + TimeoutTicks

\* C3: when the first attempt exceeds the deadline, the provider call is
\* started exactly once and search_perplexity fails with the Timeout error.
C3_TimeoutNotRetried ==
    (calls # <<>> /\ Late(script[1])) =>
        /\ Len(calls) = 1
        /\ Done => ret = Some(Raise(Exc("TimeoutError", TimeoutMsg)))

C3_Witness ==
    /\ Done /\ Late(script[1]) /\ Len(calls) = 1
    /\ IsDeadlineTimeout(Get(ret))

\* C4: a validation error or an authentication/configuration error (ValueError,
\* OSError, RuntimeError), raised in validation, in the client factory or in
\* the first attempt, is never followed by a second attempt, whatever its
\* class name or message contains.
C4_NoRetryOnValidationOrAuth ==
    /\ (Done /\ runs = <<>>) => calls = <<>>
    /\ (runs # <<>> /\ ~runs[1].out.ok
        /\ Bases(runs[1].out.exc.cls) \cap {"ValueError", "OSError", "RuntimeError"} # {})
       => Len(calls) = 1

C4_Witness ==
    /\ Done /\ Len(calls) = 1
    /\ ~runs[1].out.ok
    /\ runs[1].out.exc = Exc("ValueError", <<"Connection", "reset">>)

\* C5: at most two provider-call attempts are started, and the second one is
\* started at the moment the first controller.run ended: no backoff.
C5_AtMostTwoImmediate ==
    /\ Len(calls) <= 2
    /\ Len(calls) = 2 => calls[2].at = runs[1].exit

C5_Witness == Done /\ Len(calls) = 2 /\ ~Get(ret).ok

IsInvalidInput(o) == ~o.ok /\ o.exc.cls = "ValueError"
Started == pc \notin {"tool", "start"} /\ ~(pc = "tooldone" /\ ret = None)
RejectedUpFront == Done /\ IsInvalidInput(Get(ret)) /\ factoryCalls = 0 /\ calls = <<>>

AllSpaces(str) == \A i \in 1..Len(str) : str[i].ch = " "

\* the number of characters left when leading and trailing spaces are removed
RECURSIVE TrimmedLen(_)
TrimmedLen(str) ==
    IF str = <<>> THEN 0
    ELSE IF Head(str).ch = " " THEN TrimmedLen(Tail(str))
    ELSE IF str[Len(str)].ch = " " THEN TrimmedLen(SubSeq(str, 1, Len(str) - 1))
    ELSE StrLen(str)

\* C6 as stated: every query that is empty or whitespace-only, or longer than
\* 4096 characters, fails with InvalidInput before the client factory is called
\* and before any provider call.
C6_Original ==
    (Started /\ (AllSpaces(query) \/ StrLen(query) > 4096)) => RejectedUpFront

\* C6 amended: every query that is empty or whitespace-only, or longer than
\* 4096 characters after trimming, fails with InvalidInput before the client
\* factory is called and before any provider call.
C6_BadQueryRejected ==
    (Started /\ (AllSpaces(query) \/ TrimmedLen(query) > 4096)) => RejectedUpFront

C6_Witness ==
    /\ RejectedUpFront
    /\ ~AllSpaces(query) /\ TrimmedLen(query) = 4097

Min(a, b) == IF a < b THEN a ELSE b
Max(a, b) == IF a > b THEN a ELSE b

\* C7: the result cap every provider call receives is min(30, max(1, n)) for an
\* integer num_results n and 10 for an absent one: it lies in 1..30 and an
\* out-of-range integer is no error.
C7_CapClamped ==
    /\ \A i \in 1..Len(calls) :
         /\ calls[i].args.max_results =
              IF num_results = None THEN 10 ELSE Min(30, Max(1, Get(num_results)))
         /\ calls[i].args.max_results \in 1..30
    /\ (Done /\ num_results # None /\ calls = <<>>) =>
         (~_validate_query(query).ok \/ ~_normalize_domains(search_domain_filter).ok
          \/ ~_create_client(apiKey, script).ok)

C7_Witness ==
    /\ Done /\ calls # <<>> /\ num_results # None /\ Get(num_results) > 30
    /\ calls[1].args.max_results = 30

\* an entry is malformed when, trimmed and lowercased, it is empty, longer than
\* 253 characters or has a character outside a-z, 0-9, dot and hyphen
Malformed(e) ==
    LET d == Lower(Strip(e)) IN
    d = <<>> \/ StrLen(d) > 253 \/ \E i \in 1..Len(d) : d[i].ch \notin HostnameChars

\* the entries of f mapped by norm, keeping the first occurrence of each
FirstOccurrences(f, norm(_)) ==
    LET firsts == SelectSeq([i \in 1..Len(f) |-> i],
                            LAMBDA i : \A j \in 1..(i - 1) : norm(f[j]) # norm(f[i]))
    IN [k \in 1..Len(firsts) |-> norm(f[firsts[k]])]

FilterPassed(norm(_)) ==
    \A i \in 1..Len(calls) :
        IF search_domain_filter = None
        THEN calls[i].args.search_domain_filter = None
        ELSE /\ calls[i].args.search_domain_filter
                  = Some(FirstOccurrences(Get(search_domain_filter), norm))
             /\ Get(calls[i].args.search_domain_filter) # <<>>

\* C8 as stated: the filter the provider call receives is the sequence of the
\* lowercased entries without duplicates, in order of first occurrence, never
\* empty; an absent filter is passed as no filter.
C8_Original == FilterPassed(Lower)

TrimLower(e) == Lower(Strip(e))

\* C8 amended: the filter the provider call receives is the sequence of the
\* entries trimmed of surrounding whitespace and lowercased, without
\* duplicates, in order of first occurrence, never empty; an absent filter is
\* passed as no filter.
C8_FilterNormalized == FilterPassed(TrimLower)

C8_Witness ==
    /\ Done /\ calls # <<>>
    /\ search_domain_filter = Some(<<Str("A"), Str("a")>>)
    /\ calls[1].args.search_domain_filter = Some(<<Str("a")>>)

\* C9: a host filter with a malformed entry at any position fails the whole
\* request with InvalidInput, and no provider call is started.
C9_InvalidEntryFailsRequest ==
    (Started /\ search_domain_filter # None
     /\ \E i \in 1..Len(Get(search_domain_filter)) : Malformed(Get(search_domain_filter)[i]))
    => /\ Done /\ IsInvalidInput(Get(ret))
       /\ calls = <<>>

C9_Witness ==
    /\ Done /\ IsInvalidInput(Get(ret)) /\ calls = <<>>
    /\ _validate_query(query).ok
    /\ search_domain_filter = Some(<<Str("a"), <<Run("a", 1), Run("/", 1)>> >>)

ProviderItems(resp) == IF resp.results = None THEN <<>> ELSE Get(resp.results)
Given(field) == field # None /\ Get(field) # ""
TextOf(field) == IF field = None THEN "" ELSE Get(field)

RecordOf(rec, item) ==
    /\ {"title", "url", "last_update", "snippet"} \subseteq DOMAIN rec
    /\ DOMAIN rec \subseteq {"title", "url", "last_update", "snippet", "date"}
    /\ rec.title = TextOf(item.title)
    /\ rec.url = TextOf(item.url)
    /\ rec.snippet = TextOf(item.snippet)
    /\ "date" \in DOMAIN rec <=> Given(item.date)
    /\ IF Given(item.date)
       THEN rec.date = Get(item.date) /\ rec.last_update = rec.date
       ELSE rec.last_update = ""

\* C10: the result of a provider call that answered has one record per provider
\* item, in the provider's order; every record has title, url, last_update and
\* snippet (empty when the provider field is absent) and has a date key exactly
\* when the provider gave a non-empty date, and then last_update equals date;
\* otherwise last_update is empty.
C10_RecordsNormalized ==
    \A i \in 1..Len(threads) :
        (threads[i].future # None /\ script[i].out.ok) =>
            LET out == Get(threads[i].future)
                items == ProviderItems(script[i].out.val)
            IN /\ out.ok
               /\ Len(out.val) = Len(items)
               /\ \A k \in 1..Len(items) : RecordOf(out.val[k], items[k])

C10_Witness ==
    /\ Done /\ Get(ret).ok /\ Len(Get(ret).val) = 2
    /\ "date" \in DOMAIN Get(ret).val[1]
    /\ "date" \notin DOMAIN Get(ret).val[2]

\* C11: when the first attempt failed transiently and the retry fails too, no
\* third attempt is made and the error raised says that the failure occurred
\* after retry and carries the kind and the message of the retry's failure.
C11_SecondFailureWrapped ==
    (Done /\ Len(runs) = 2 /\ ~runs[2].out.ok) =>
        /\ Len(calls) = 2
        /\ ~Get(ret).ok
        /\ Get(ret).exc.cls = "Exception"
        /\ Get(ret).exc.msg = <<"perplexity_search failed after retry">>
                                \o ClassName(runs[2].out.exc.cls) \o runs[2].out.exc.msg

C11_Witness ==
    /\ Done /\ Len(calls) = 2
    /\ runs[2].out = Raise(Exc("KeyError", <<"boom">>))
    /\ Get(ret).exc.msg = <<"perplexity_search failed after retry", "Key", "Error", "boom">>

\* C14: a provider response without a results collection, or with an empty
\* one, makes the request succeed with an empty list: no error, no retry.
C14_EmptyResponseSucceeds ==
    (Done /\ calls # <<>> /\ InTime(script[1]) /\ script[1].out.ok
     /\ ProviderItems(script[1].out.val) = <<>>)
    => /\ ret = Some(Ok(<<>>))
       /\ Len(calls) = 1

C14_Witness ==
    /\ Done /\ Len(calls) = 1
    /\ script[1].out.ok /\ script[1].out.val.results = None
    /\ ret = Some(Ok(<<>>))

\* C15 as stated: when the retry attempt exceeds the deadline, the request
\* fails with the Timeout error a first-attempt timeout produces, and no
\* further attempt is made.
C15_Original ==
    (Done /\ Len(runs) = 2 /\ Late(script[2])) =>
        /\ Len(calls) = 2
        /\ ret = Some(Raise(Exc("TimeoutError", TimeoutMsg)))

\* C15 amended: when the retry attempt exceeds the deadline, no further
\* attempt is made and the error raised is not the TimeoutError of a
\* first-attempt timeout but the generic after-retry error, whose message
\* names TimeoutError and carries the timeout message.
C15_RetryTimeoutWrapped ==
    (Done /\ Len(runs) = 2 /\ Late(script[2])) =>
        /\ Len(calls) = 2
        /\ ret = Some(Raise(Exc("Exception",
                 <<"perplexity_search failed after retry", "Timeout", "Error">> \o TimeoutMsg)))

C15_Witness ==
    /\ Done /\ Len(calls) = 2 /\ Late(script[2])
    /\ IsDeadlineTimeout(runs[2].out)
    /\ Get(ret).exc.cls = "Exception"

\* C16: a task that ends before the deadline by raising a failure, a
\* timeout-class failure included, makes controller.run raise that failure;
\* the deadline Timeout is raised only when the deadline passes before the
\* task has ended.
C16_TaskFailureKept ==
    \A i \in 1..Len(runs) :
        /\ (InTime(script[i]) /\ ~script[i].out.ok) => runs[i].out = script[i].out
        /\ IsDeadlineTimeout(runs[i].out) => ~InTime(script[i])

\* the first attempt failed with a failure that is passed to the classifier,
\* and the classifier has answered
Consulted ==
    /\ runs # <<>> /\ ~runs[1].out.ok
    /\ Bases(runs[1].out.exc.cls) \cap {"ValueError", "OSError", "RuntimeError"} = {}
    /\ ~(pc = "handle" /\ Len(runs) = 1)
Retried == pc = "attempt" \/ Len(calls) = 2

Structured(exc) == "httpx.TransportError" \in Bases(exc.cls)
HasKeyword(text, keywords) == \E k \in keywords : Contains(text, k)
StatedKeywords == {"timeout", "timed out", "connection", "transport",
                   "temporarily unavailable", "try again"}

C18_RetryOnlyIfTransient ==
    /\ (runs # <<>> /\ ~runs[1].out.ok /\ ~_is_transient_error(runs[1].out.exc)) =>
           /\ Len(calls) = 1
           /\ Done => ret = Some(runs[1].out)
    /\ Len(calls) = 2 =>
           /\ ~runs[1].out.ok
           /\ _is_transient_error(runs[1].out.exc)

C18_Witness ==
    /\ Done /\ Len(calls) = 1
    /\ runs[1].out = Raise(Exc("KeyError", <<"boom">>))
    /\ ret = Some(runs[1].out)

EntriesOf(f) == {Get(f)[i] : i \in 1..Len(Get(f))}
PassedValidation == Started /\ ~(Done /\ runs = <<>> /\ factoryCalls = 0)

\* C19 as stated: a host filter entry with a space anywhere, leading or
\* trailing whitespace around an otherwise valid hostname included, fails the
\* whole request with InvalidInput.
C19_Original ==
    (Started /\ search_domain_filter # None
     /\ \E e \in EntriesOf(search_domain_filter) : HasChar(e, " "))
    => RejectedUpFront

\* C19 amended: a host filter entry that still has a space after its leading
\* and trailing whitespace is trimmed fails the whole request with
\* InvalidInput; whitespace around an otherwise valid hostname is trimmed and
\* the entry is accepted.
C19_InnerSpaceRejected ==
    /\ (Started /\ search_domain_filter # None
        /\ \E e \in EntriesOf(search_domain_filter) : HasChar(RStrip(LStrip(e)), " "))
       => RejectedUpFront
    /\ (Started /\ TrimmedLen(query) \in 1..4096 /\ search_domain_filter # None
        /\ search_domain_filter # Some(<<>>)
        /\ \A e \in EntriesOf(search_domain_filter) : ~Malformed(e))
       => PassedValidation

C19_Witness ==
    /\ RejectedUpFront
    /\ _validate_query(query).ok
    /\ search_domain_filter = Some(<<Str("a"), <<Run("a", 1), Run(" ", 1), Run("a", 1)>> >>)

C19_WitnessPadded ==
    /\ Done /\ calls # <<>>
    /\ search_domain_filter = Some(<< <<Run(" ", 1), Run("a", 1)>> >>)

\* C20: at every moment at most one worker thread is running the provider
\* call: the retry is never started while the task of the first attempt is
\* still running.
C20_OneRunningCall ==
    /\ Cardinality({i \in 1..Len(threads) : threads[i].state = "running"}) <= 1
    /\ Len(threads) = 2 => threads[1].state = "finished"

C20_Witness ==
    /\ Len(threads) = 2
    /\ threads[1].state = "finished" /\ threads[2].state = "running"
    /\ now > threads[2].start

ToolCalled == entry = "tool" /\ pc # "tool"
ToolEnded == entry = "tool" /\ pc = "tooldone"

\* C12: the tool perplexity_search takes query, num_results and an optional
\* search_domain_filter, passes the three to search_perplexity unchanged and
\* returns {"results": list} with the list search_perplexity returned.
C12_ToolPassesArguments ==
    /\ ToolCalled =>
         /\ query = toolArgs.query
         /\ num_results = IF toolArgs.num_results = None THEN Some(10)
                                                         ELSE toolArgs.num_results
         /\ search_domain_filter = toolArgs.search_domain_filter
    /\ (ToolEnded /\ ret # None /\ Get(ret).ok) =>
         toolRet = Some(Ok([results |-> Get(ret).val]))

\* C13: every error search_perplexity raises makes the tool end in an error,
\* never in a results value, and a ValueError reaches the caller of the tool as
\* the same error.
C13_ToolPropagatesErrors ==
    (ToolEnded /\ ret # None /\ ~Get(ret).ok) =>
        /\ ~Get(toolRet).ok
        /\ Get(ret).exc.cls = "ValueError" => toolRet = ret
        /\ Get(toolRet).exc.cls = Get(ret).exc.cls
           \/ Get(toolRet).exc.msg = <<"perplexity_search failed">>
                  \o ClassName(Get(ret).exc.cls) \o Get(ret).exc.msg

C13_Witness ==
    /\ ToolEnded /\ ret # None
    /\ Get(ret).exc.cls = "ValueError"
    /\ toolRet = ret

FactoryFailed == factoryCalls >= 1 /\ ~_create_client(apiKey, script).ok

\* C22: in every execution of search_perplexity the client factory is called
\* at most once, only after the query, the result cap and the host filter have
\* been validated, and outside the deadline-bounded attempts; when the factory
\* fails no provider call is attempted, and when there is a retry both
\* attempts use the same client handle.
C22_OneClientPerCall ==
    /\ factoryCalls <= 1
    /\ factoryCalls >= 1 => q # None /\ max_results # None /\ domains # None
    /\ pc = "factory" => factoryCalls = 0 /\ threads = <<>> /\ calls = <<>>
    /\ threads # <<>> => factoryCalls = 1 /\ client = Some(1)
    /\ FactoryFailed =>
          /\ Done /\ calls = <<>> /\ threads = <<>> /\ runs = <<>>
          /\ Get(ret) = _create_client(apiKey, script)
    /\ \A i \in 1..Len(calls) : calls[i].client = calls[1].client

C22_Witness ==
    /\ Done /\ Len(calls) = 2 /\ Len(runs) = 2
    /\ factoryCalls = 1
    /\ calls[1].client = calls[2].client

C22_WitnessFactoryFailed ==
    Done /\ FactoryFailed /\ calls = <<>> /\ q # None

====
